---- MODULE Spec2Model ----
(***************************************************************************)
(* Model of prime_calculator.py: calculate_primes(n) collects successive   *)
(* integers accepted by isprime, starting at 2, while len(primes) < n.     *)
(* The caller may invoke the function several times; every value returned  *)
(* is recorded per argument so that results of distinct invocations can be *)
(* compared.                                                               *)
(***************************************************************************)
EXTENDS Integers, Sequences, FiniteSets, TLC

\* ---- bounds of the model ------------------------------------------------
NegArgs == 2        \* the caller passes arguments down to -NegArgs
MaxN == 16          \* largest argument the caller passes
MaxCalls == 2       \* number of invocations the caller makes
NumCap == 128       \* candidates are explored below this value

Args == (0 - NegArgs)..MaxN

VARIABLES pc, n, primes, num, result, calls, returned

vars == <<pc, n, primes, num, result, calls, returned>>

\* ---- values ---------------------------------------------------------------
NoValue == <<-1>>               \* nothing has been returned (not a list of candidates)

Range(s) == {s[i] : i \in 1..Len(s)}

Last(s) == s[Len(s)]

\* ---- primality ------------------------------------------------------------
\* Glossary definition: greater than 1, no positive divisor but 1 and itself.
IsPrimeByDefinition(k) ==
    /\ k > 1
    /\ \A d \in 1..k : (k % d = 0) => (d = 1 \/ d = k)

\* Trial division: no d with 2 <= d and d*d <= k divides k.
NoDivisorUpToSqrt(k) ==
    \A d \in 2..k : (d * d <= k) => (k % d # 0)

SmallPrimeDivisors == {7, 11, 13, 17, 19, 23, 29, 31, 37, 41, 43, 47}

\* isprime with the special case for 2, 3 and 5 left out.
isprimeNoSmallCase(k) ==
    IF k < 2 \/ k % 2 = 0 \/ k % 3 = 0 \/ k % 5 = 0 THEN FALSE
    ELSE IF k < 49 THEN TRUE
    ELSE IF \E p \in SmallPrimeDivisors : k % p = 0 THEN FALSE
    ELSE IF k < 2809 THEN TRUE
    ELSE NoDivisorUpToSqrt(k)

\* sympy's isprime as imported on line 1: the shortcuts it takes for small
\* arguments (2, 3, 5; multiples of 2, 3, 5; below 49; multiples of the
\* primes 7..47; below 2809).  Above that the library's tests are exact for
\* machine-size integers and are represented by trial division.
isprime(k) ==
    IF k \in {2, 3, 5} THEN TRUE
    ELSE IF k < 2 \/ k % 2 = 0 \/ k % 3 = 0 \/ k % 5 = 0 THEN FALSE
    ELSE IF k < 49 THEN TRUE
    ELSE IF \E p \in SmallPrimeDivisors : k % p = 0 THEN FALSE
    ELSE IF k < 2809 THEN TRUE
    ELSE NoDivisorUpToSqrt(k)

\* The primes in [2, m), ascending.
RECURSIVE PrimesBelow(_)
PrimesBelow(m) ==
    IF m <= 2 THEN <<>>
    ELSE IF IsPrimeByDefinition(m - 1) THEN Append(PrimesBelow(m - 1), m - 1)
    ELSE PrimesBelow(m - 1)

\* ---- calculate_primes -----------------------------------------------------
Init ==
    /\ pc = "idle"
    /\ n = 0
    /\ primes = <<>>
    /\ num = 2
    /\ result = NoValue
    /\ calls = 0
    /\ returned = [m \in Args |-> {}]

\* Entry that leaves num as the previous invocation left it.
CallKeepsNum(m) ==
    /\ pc \in {"idle", "done"}
    /\ calls < MaxCalls
    /\ n' = m
    /\ primes' = <<>>
    /\ num' = num
    /\ result' = NoValue
    /\ calls' = calls + 1
    /\ pc' = "loop"
    /\ UNCHANGED returned

\* calculate_primes(m) is entered: primes = [], num = 2.
Call(m) ==
    /\ pc \in {"idle", "done"}
    /\ calls < MaxCalls
    /\ n' = m
    /\ primes' = <<>>
    /\ num' = 2
    /\ result' = NoValue
    /\ calls' = calls + 1
    /\ pc' = "loop"
    /\ UNCHANGED returned

\* Loop test written with <= .
LoopCondOffByOne == Len(primes) <= n

\* Loop test written with != .
LoopCondNotEqual == Len(primes) # n

\* while len(primes) < n
LoopCond == Len(primes) < n

\* Loop body with the increment indented under the if.
LoopStepIncrInsideIf ==
    /\ pc = "loop"
    /\ LoopCond
    /\ num < NumCap
    /\ primes' = IF isprime(num) THEN Append(primes, num) ELSE primes
    /\ num' = IF isprime(num) THEN num + 1 ELSE num
    /\ UNCHANGED <<pc, n, result, calls, returned>>

\* Loop body incrementing the candidate only when it was rejected.
LoopStepIncrInElse ==
    /\ pc = "loop"
    /\ LoopCond
    /\ num < NumCap
    /\ primes' = IF isprime(num) THEN Append(primes, num) ELSE primes
    /\ num' = IF isprime(num) THEN num ELSE num + 1
    /\ UNCHANGED <<pc, n, result, calls, returned>>

\* Loop body stepping the candidate by 2.
LoopStepByTwo ==
    /\ pc = "loop"
    /\ LoopCond
    /\ num < NumCap
    /\ primes' = IF isprime(num) THEN Append(primes, num) ELSE primes
    /\ num' = num + 2
    /\ UNCHANGED <<pc, n, result, calls, returned>>

\* Loop body incrementing the candidate before it is tested.
LoopStepTestsNext ==
    /\ pc = "loop"
    /\ LoopCond
    /\ num < NumCap
    /\ primes' = IF isprime(num + 1) THEN Append(primes, num + 1) ELSE primes
    /\ num' = num + 1
    /\ UNCHANGED <<pc, n, result, calls, returned>>

\* Loop body appending the candidate after it was incremented.
LoopStepAppendAfterIncr ==
    /\ pc = "loop"
    /\ LoopCond
    /\ num < NumCap
    /\ primes' = IF isprime(num) THEN Append(primes, num + 1) ELSE primes
    /\ num' = num + 1
    /\ UNCHANGED <<pc, n, result, calls, returned>>

\* One iteration: if isprime(num): primes.append(num); num += 1
LoopStep ==
    /\ pc = "loop"
    /\ LoopCond
    /\ num < NumCap
    /\ primes' = IF isprime(num) THEN Append(primes, num) ELSE primes
    /\ num' = num + 1
    /\ UNCHANGED <<pc, n, result, calls, returned>>

\* The loop test fails: return primes.
Return ==
    /\ pc = "loop"
    /\ ~LoopCond
    /\ result' = primes
    /\ returned' = [returned EXCEPT ![n] = @ \cup {primes}]
    /\ pc' = "done"
    /\ UNCHANGED <<n, primes, num, calls>>

Next ==
    \/ \E m \in Args : Call(m)
    \/ LoopStep
    \/ Return

Spec == Init /\ [][Next]_vars

\* The interpreter keeps executing a running invocation; the caller is under
\* no obligation to invoke the function again.
FairSpec == Spec /\ WF_vars(LoopStep) /\ WF_vars(Return)

TypeOK ==
    /\ pc \in {"idle", "loop", "done"}
    /\ n \in Args
    /\ num \in 2..NumCap
    /\ calls \in 0..MaxCalls

\* ---- properties -----------------------------------------------------------

\* C1: for n >= 0 the value returned is exactly the first n primes, ascending
\* from 2: it has n elements, and every k in 2..last is in it iff k is prime;
\* for n = 10 it is [2, 3, 5, 7, 11, 13, 17, 19, 23, 29].
FirstNPrimes ==
    (pc = "done" /\ n >= 0) =>
        /\ Len(result) = n
        /\ \A i \in 1..(Len(result) - 1) : result[i] < result[i + 1]
        /\ n > 0 => \A k \in 2..Last(result) :
                        (k \in Range(result)) <=> IsPrimeByDefinition(k)
        /\ n = 10 => result = <<2, 3, 5, 7, 11, 13, 17, 19, 23, 29>>

FirstTenReturned ==
    pc = "done" /\ n = 10 /\ result = <<2, 3, 5, 7, 11, 13, 17, 19, 23, 29>>

\* C2: an invalid (negative) count is rejected: the invocation raises, it
\* never returns a sequence, not even the empty one.
InvalidCountRejected ==
    n < 0 => (pc \in {"loop", "raised"} /\ result = NoValue)

\* C3: for n >= 0 the returned sequence has exactly n elements, and the
\* empty sequence is returned for n = 0.
ExactlyNElements ==
    (pc = "done" /\ n >= 0) =>
        /\ Len(result) = n
        /\ n = 0 => result = <<>>

FiveElementsReturned ==
    pc = "done" /\ n = 5 /\ Len(result) = 5

\* C4: for n >= 0 a running invocation eventually returns.
Terminates ==
    (pc = "loop" /\ n >= 0) ~> (pc = "done")

LargestCountReturned ==
    pc = "done" /\ n = MaxN /\ Len(result) = MaxN

\* C5: for n >= 1 every returned element is >= 2 and has no divisor d with
\* 2 <= d and d*d <= element.
AllElementsPrime ==
    (pc = "done" /\ n >= 1) =>
        \A i \in 1..Len(result) :
            result[i] >= 2 /\ NoDivisorUpToSqrt(result[i])

ReturnedUpToFiftyThree ==
    pc = "done" /\ n >= 1 /\ 53 \in Range(result)

\* C6: for n >= 2 the returned sequence is strictly increasing, so no value
\* appears twice.
StrictlyIncreasing ==
    (pc = "done" /\ n >= 2) =>
        \A i, j \in 1..Len(result) : i < j => result[i] < result[j]

TwoElementsReturned ==
    pc = "done" /\ n = 2 /\ result = <<2, 3>>

\* C7: invocations with the same n return identical sequences whatever was
\* invoked before, and every invocation starts from primes = [] and num = 2.
Deterministic ==
    /\ [](\A m \in Args : Cardinality(returned[m]) <= 1)
    /\ [][(pc # "loop" /\ pc' = "loop") => (primes' = <<>> /\ num' = 2)]_vars

SameCountReturnedTwice ==
    /\ pc = "done"
    /\ calls = 2
    /\ n = 3
    /\ {m \in Args : returned[m] # {}} = {3}

\* C8 as stated: started with n < 0 the loop never reaches the return.
NegativeNeverReturns ==
    n < 0 => pc # "done"

\* C8 as amended: n is never validated, and for n < 0 the loop test is false
\* on entry: no candidate is tested and the empty list is returned at once.
NegativeReturnsEmptyAtOnce ==
    (pc # "idle" /\ n < 0) =>
        /\ primes = <<>>
        /\ num = 2
        /\ ~LoopCond
        /\ pc = "loop" => ENABLED Return
        /\ pc = "done" => result = <<>>

NegativeCountReturned ==
    pc = "done" /\ n = -1 /\ result = <<>>

\* C9: on every candidate the loop tests, isprime agrees with the definition
\* of a prime, and so does trial division up to the square root; 2 and 3 are
\* accepted.
PredicateAgrees ==
    pc = "loop" =>
        /\ isprime(num) <=> IsPrimeByDefinition(num)
        /\ NoDivisorUpToSqrt(num) <=> IsPrimeByDefinition(num)
        /\ num \in {2, 3} => isprime(num)

SquareOfSevenTested ==
    pc = "loop" /\ LoopCond /\ num = 49 /\ ~isprime(num)

\* C10: loop invariant: num >= 2 and grows by exactly 1 per iteration,
\* primes is the ascending list of the primes in [2, num), its length never
\* exceeds n (n >= 0), no iteration runs once the length equals n, and on
\* return num is one more than the last element (2 when nothing was
\* collected).
LoopInvariant ==
    /\ [](pc # "idle" =>
            /\ num >= 2
            /\ primes = PrimesBelow(num)
            /\ n >= 0 => Len(primes) <= n
            /\ (pc = "loop" /\ Len(primes) = n) => ~ENABLED LoopStep
            /\ pc = "done" =>
                  /\ result = primes
                  /\ n > 0 => num = Last(result) + 1
                  /\ n <= 0 => num = 2)
    /\ [][(pc = "loop" /\ pc' = "loop") => num' = num + 1]_vars

MidLoopFourCollected ==
    pc = "loop" /\ n = 7 /\ num = 10 /\ primes = <<2, 3, 5, 7>>

====
